---- MODULE Spec2Model ----
(***************************************************************************)
(* Model of src/process_pdfs.py: the batch loop of main, the outline       *)
(* extractor process_pdf with its failure path, and the stage functions it *)
(* calls (tag_by_font_hierarchy, is_actual_heading,                        *)
(* remove_duplicate_headings, group_vertical_headings, the level filter    *)
(* and the title resolver).                                                *)
(*                                                                         *)
(* Conventions.                                                            *)
(*  - Text is a TLA+ string; Ch(s, i) is its i-th character.               *)
(*  - A font size is an integer number of hundredths of a point; 0 stands  *)
(*    for a falsy font_size (None or 0.0), which the code never tells      *)
(*    apart (every test is `if item['font_size']`).                        *)
(*  - A font name is a string; "" stands for a falsy font_name (None).     *)
(*  - An optional argument of is_actual_heading is <<>> for None and <<v>> *)
(*    for the value v.                                                     *)
(*  - Positions and page dimensions are whole points.                      *)
(***************************************************************************)
EXTENDS Integers, Sequences, FiniteSets, TLC

VARIABLES
    pc,                 \* position of main and of process_pdf
    pdf_files,          \* main: the documents the loop has still to take
    file_number,        \* main: the place of `pdf` in the batch, 0 before the loop
    written,            \* the output directory: <<file number, record>> per dump
    failures,           \* the "Failed to process" lines: <<file number, error>>
    pdf,                \* the input document: [info_ok, info_title, lines]
    metadata_title,     \* extract_metadata_title(pdf_path), "" for None
    all_text,           \* extract_all_text_with_font_tags(pdf_path)
    tagged_text,        \* tag_by_font_hierarchy(all_text)
    phase2_headings,    \* `headings` after the Phase 2 loop
    unique_headings,    \* `headings` after remove_duplicate_headings
    headings,           \* `headings` after group_vertical_headings
    all_heading_counts, \* level -> number of tagged lines
    breakpoint_level,   \* "H<k>", or "" for None
    filtered_headings,
    cleaned_headings,
    title,
    output              \* the JSON record written for `pdf` (at most one)

\* The state of main, which no step of process_pdf but its last changes
batch == <<pdf_files, file_number, written, failures>>

vars == <<pc, pdf_files, file_number, written, failures, pdf, metadata_title, all_text, tagged_text, phase2_headings,
          unique_headings, headings, all_heading_counts, breakpoint_level,
          filtered_headings, cleaned_headings, title, output>>

-----------------------------------------------------------------------------
(* Strings *)

Ch(s, i) == SubSeq(s, i, i)

LowerLetters == <<"a","b","c","d","e","f","g","h","i","j","k","l","m",
                  "n","o","p","q","r","s","t","u","v","w","x","y","z">>

UpperLetters == <<"A","B","C","D","E","F","G","H","I","J","K","L","M",
                  "N","O","P","Q","R","S","T","U","V","W","X","Y","Z">>

LowerSet == {LowerLetters[i] : i \in 1..26}

UpperSet == {UpperLetters[i] : i \in 1..26}

DigitSeq == <<"0","1","2","3","4","5","6","7","8","9">>

Digits == {DigitSeq[i] : i \in 1..10}

\* str.isspace for one character
IsSpace(c) == c \in {" ", "\t", "\n"}

\* \w of the re module
IsWordCh(c) == c \in LowerSet \cup UpperSet \cup Digits \cup {"_"}

MinOf(S) == CHOOSE m \in S : \A n \in S : m <= n

MaxOf(S) == CHOOSE m \in S : \A n \in S : m >= n

Abs(n) == IF n < 0 THEN -n ELSE n

\* str.strip()
Strip(s) ==
    LET keep == {i \in 1..Len(s) : ~IsSpace(Ch(s, i))}
    IN  IF keep = {} THEN "" ELSE SubSeq(s, MinOf(keep), MaxOf(keep))

\* str.lstrip()
LStrip(s) ==
    LET keep == {i \in 1..Len(s) : ~IsSpace(Ch(s, i))}
    IN  IF keep = {} THEN "" ELSE SubSeq(s, MinOf(keep), Len(s))

ToLowerCh(c) ==
    IF c \in UpperSet
    THEN LowerLetters[CHOOSE i \in 1..26 : UpperLetters[i] = c]
    ELSE c

RECURSIVE Lower(_)
\* str.lower()
Lower(s) == IF s = "" THEN "" ELSE ToLowerCh(Ch(s, 1)) \o Lower(Tail(s))

\* str.isupper(): at least one cased character, and no lower-case one
IsUpper(s) ==
    /\ \E i \in 1..Len(s) : Ch(s, i) \in UpperSet
    /\ \A i \in 1..Len(s) : Ch(s, i) \notin LowerSet

StartsWith(s, p) == Len(s) >= Len(p) /\ SubSeq(s, 1, Len(p)) = p

EndsWith(s, p) == Len(s) >= Len(p) /\ SubSeq(s, Len(s) - Len(p) + 1, Len(s)) = p

\* `sub in s`
Contains(s, sub) ==
    \E i \in 1..(Len(s) - Len(sub) + 1) : SubSeq(s, i, i + Len(sub) - 1) = sub

\* s.count(c) for one character c
CountCh(s, c) == Cardinality({i \in 1..Len(s) : Ch(s, i) = c})

\* len(s.split())
WordCount(s) ==
    Cardinality({i \in 1..Len(s) :
        ~IsSpace(Ch(s, i)) /\ (i = 1 \/ IsSpace(Ch(s, i - 1)))})

\* s.split('-')[0]
BeforeDash(s) ==
    LET dashes == {i \in 1..Len(s) : Ch(s, i) = "-"}
    IN  IF dashes = {} THEN s ELSE SubSeq(s, 1, MinOf(dashes) - 1)

AllIn(s, set) == \A i \in 1..Len(s) : Ch(s, i) \in set

AllSpace(s) == \A i \in 1..Len(s) : IsSpace(Ch(s, i))

DigitValue(c) == (CHOOSE i \in 1..10 : DigitSeq[i] = c) - 1

RECURSIVE ParseInt(_)
\* int(s) for a string of decimal digits
ParseInt(s) ==
    IF Len(s) = 1 THEN DigitValue(s)
    ELSE 10 * ParseInt(SubSeq(s, 1, Len(s) - 1)) + DigitValue(Ch(s, Len(s)))

\* f"H{i}"
LevelName(i) == "H" \o ToString(i)

\* int(level[1:])
LevelIndex(level) == ParseInt(SubSeq(level, 2, Len(level)))

H_body == "H_body"

\* item['level'].startswith('H') and item['level'] != 'H_body'
IsHeadingLevel(level) == StartsWith(level, "H") /\ level # H_body

-----------------------------------------------------------------------------
(* is_date_or_month_or_number *)

MonthNames == {"january", "february", "march", "april", "may", "june", "july",
               "august", "september", "october", "november", "december"}

MonthAbbrs == {"jan", "feb", "mar", "apr", "may", "jun", "jul", "aug", "sep",
               "oct", "nov", "dec"}

\* MONTHS: calendar.month_name and calendar.month_abbr, lower-cased
MONTHS == MonthNames \cup MonthAbbrs

\* re.fullmatch(r'[\d.,/\-]+', t)
OnlyNumberChars(t) == Len(t) >= 1 /\ AllIn(t, Digits \cup {".", ",", "/", "-"})

\* \d{lo,hi} against the whole of s
DigitRun(s, lo, hi) == Len(s) >= lo /\ Len(s) <= hi /\ AllIn(s, Digits)

\* r'\d{1,2}[/-]\d{1,2}([/-]\d{2,4})?' against the whole of t
NumericDate(t) ==
    \E a \in 1..2 : \E b \in 1..2 :
        /\ Len(t) >= a + 1 + b
        /\ DigitRun(SubSeq(t, 1, a), 1, 2)
        /\ Ch(t, a + 1) \in {"/", "-"}
        /\ DigitRun(SubSeq(t, a + 2, a + 1 + b), 1, 2)
        /\ \/ Len(t) = a + 1 + b
           \/ /\ Len(t) > a + 2 + b
              /\ Ch(t, a + 2 + b) \in {"/", "-"}
              /\ DigitRun(SubSeq(t, a + 3 + b, Len(t)), 2, 4)

\* r'\s+\d{4}$' against the whole of r
SpacesYear(r) ==
    /\ Len(r) >= 5
    /\ AllSpace(SubSeq(r, 1, Len(r) - 4))
    /\ DigitRun(SubSeq(r, Len(r) - 3, Len(r)), 4, 4)

\* r'^(m1|m2|...)\s+\d{4}$'
MonthYear(t, months) ==
    \E m \in months : StartsWith(t, m) /\ SpacesYear(SubSeq(t, Len(m) + 1, Len(t)))

\* r'^(m1|m2|...)\s+\d{1,2},?\s+\d{4}$'
MonthDayYear(t, months) ==
    \E m \in months :
        /\ StartsWith(t, m)
        /\ LET r == SubSeq(t, Len(m) + 1, Len(t))
           IN  \E a \in 1..Len(r) : \E d \in 1..2 : \E c \in 0..1 :
                   /\ a + d + c + 5 <= Len(r)
                   /\ AllSpace(SubSeq(r, 1, a))
                   /\ DigitRun(SubSeq(r, a + 1, a + d), 1, 2)
                   /\ (c = 1 => Ch(r, a + d + 1) = ",")
                   /\ SpacesYear(SubSeq(r, a + d + c + 1, Len(r)))

is_date_or_month_or_number(text) ==
    LET t == Lower(Strip(text))
    IN  \/ OnlyNumberChars(t)
        \/ t \in MONTHS
        \/ NumericDate(t)
        \/ DigitRun(t, 4, 4)
        \/ MonthDayYear(t, MonthNames)
        \/ MonthYear(t, MonthNames)
        \/ MonthDayYear(t, MonthAbbrs)
        \/ MonthYear(t, MonthAbbrs)

-----------------------------------------------------------------------------
(* is_actual_heading *)

None == <<>>

Some(v) == <<v>>

\* Whole trimmed text enclosed in a matching pair of brackets
BracketEnclosed(t) ==
    \/ StartsWith(t, "(") /\ EndsWith(t, ")")
    \/ StartsWith(t, "[") /\ EndsWith(t, "]")
    \/ StartsWith(t, "{") /\ EndsWith(t, "}")

\* First non-space character is lower-case
StartsLower(t) == LET u == LStrip(t) IN u # "" /\ Ch(u, 1) \in LowerSet

\* len(t) > 20 and ',' in t and t.count(' ') > 5
LooksLikeSentence(t) == Len(t) > 20 /\ Contains(t, ",") /\ CountCh(t, " ") > 5

\* t.isupper() and len(t) > 2
AllCaps(t) == IsUpper(t) /\ Len(t) > 2

BoldIndicators == {"bold", "b", "heavy", "black"}

\* font_name and any(ind in font_name.lower() for ind in [...])
IsBoldFont(font_name) ==
    font_name # "" /\ \E ind \in BoldIndicators : Contains(Lower(font_name), ind)

\* abs(x0 - page_width / 2) < page_width * 0.3, in whole points
NearCentre(x0, page_width) ==
    /\ x0 # None
    /\ page_width # None
    /\ 10 * Abs(2 * x0[1] - page_width[1]) < 6 * page_width[1]

\* y0 > page_height * 0.7
InTopOfPage(y0, page_height) ==
    /\ y0 # None
    /\ page_height # None
    /\ 10 * y0[1] > 7 * page_height[1]

non_heading_words == {"page", "continued", "footnote", "reference", "appendix",
                      "index", "glossary"}

\* re.match(r'^\d+\.$', t)
NumberWithPeriod(t) ==
    Len(t) >= 2 /\ AllIn(SubSeq(t, 1, Len(t) - 1), Digits) /\ EndsWith(t, ".")

\* re.fullmatch(r'[^\w\s]+', t)
OnlySymbols(t) ==
    Len(t) >= 1 /\ \A i \in 1..Len(t) : ~IsWordCh(Ch(t, i)) /\ ~IsSpace(Ch(t, i))

\* re.match(r'^page\s+\d+$', t.lower())
PageNumber(t) ==
    LET l == Lower(t)
    IN  /\ StartsWith(l, "page")
        /\ \E a \in 1..(Len(l) - 5) :
               /\ AllSpace(SubSeq(l, 5, 4 + a))
               /\ DigitRun(SubSeq(l, 5 + a, Len(l)), 1, Len(l))

\* re.search(r'http[s]?://|www\.|@', t)
UrlOrEmail(t) ==
    \/ Contains(t, "http://")
    \/ Contains(t, "https://")
    \/ Contains(t, "www.")
    \/ Contains(t, "@")

\* The tail of the decision list, after the positional accept rules.  The
\* source also rejects a text holding the sign U+00A9; the texts here are
\* ASCII, for which that test is always false.
PassesLateChecks(t) ==
    /\ WordCount(t) <= 10
    /\ Len(t) >= 2
    /\ Len(t) <= 100
    /\ ~NumberWithPeriod(t)
    /\ ~OnlySymbols(t)
    /\ Lower(t) \notin non_heading_words
    /\ ~PageNumber(t)
    /\ ~Contains(Lower(t), "copyright")
    /\ ~UrlOrEmail(t)

\* Faulty variant, for sensitivity: the sentence rule placed after the all-caps and bold accept rules
is_actual_heading_SentenceLate(text, level, x0, y0, page_width, page_height, font_name) ==
    LET t == Strip(text)
    IN  IF BracketEnclosed(t) THEN FALSE
        ELSE IF StartsLower(t) THEN FALSE
        ELSE IF level = H_body THEN FALSE
        ELSE IF AllCaps(t) THEN TRUE
        ELSE IF IsBoldFont(font_name) THEN TRUE
        ELSE IF LooksLikeSentence(t) THEN FALSE
        ELSE IF OnlyNumberChars(t) THEN FALSE
        ELSE IF is_date_or_month_or_number(t) THEN FALSE
        ELSE IF NearCentre(x0, page_width) THEN TRUE
        ELSE IF InTopOfPage(y0, page_height) THEN TRUE
        ELSE PassesLateChecks(t)

\* Faulty variant, for sensitivity: the bracket rule placed after the all-caps and bold accept rules
is_actual_heading_BracketsLate(text, level, x0, y0, page_width, page_height, font_name) ==
    LET t == Strip(text)
    IN  IF StartsLower(t) THEN FALSE
        ELSE IF level = H_body THEN FALSE
        ELSE IF LooksLikeSentence(t) THEN FALSE
        ELSE IF AllCaps(t) THEN TRUE
        ELSE IF IsBoldFont(font_name) THEN TRUE
        ELSE IF BracketEnclosed(t) THEN FALSE
        ELSE IF OnlyNumberChars(t) THEN FALSE
        ELSE IF is_date_or_month_or_number(t) THEN FALSE
        ELSE IF NearCentre(x0, page_width) THEN TRUE
        ELSE IF InTopOfPage(y0, page_height) THEN TRUE
        ELSE PassesLateChecks(t)

is_actual_heading(text, level, x0, y0, page_width, page_height, font_name) ==
    LET t == Strip(text)
    IN  IF BracketEnclosed(t) THEN FALSE
        ELSE IF StartsLower(t) THEN FALSE
        ELSE IF level = H_body THEN FALSE
        ELSE IF LooksLikeSentence(t) THEN FALSE
        ELSE IF AllCaps(t) THEN TRUE
        ELSE IF IsBoldFont(font_name) THEN TRUE
        ELSE IF OnlyNumberChars(t) THEN FALSE
        ELSE IF is_date_or_month_or_number(t) THEN FALSE
        ELSE IF NearCentre(x0, page_width) THEN TRUE
        ELSE IF InTopOfPage(y0, page_height) THEN TRUE
        ELSE PassesLateChecks(t)

-----------------------------------------------------------------------------
(* extract_metadata_title *)

\* bytes.decode('utf-8', errors='ignore'): a byte is a one-character string,
\* or a longer token such as "0xFF" for a byte that is not valid UTF-8
RECURSIVE Decode(_)
Decode(bytes) ==
    IF bytes = <<>> THEN ""
    ELSE (IF Len(Head(bytes)) = 1 THEN Head(bytes) ELSE "") \o Decode(Tail(bytes))

\* "" stands for None: `return title if title else None`, and None again when
\* anything inside the try block raises
extract_metadata_title(doc) ==
    IF ~doc.info_ok THEN "" ELSE Strip(Decode(doc.info_title))

-----------------------------------------------------------------------------
(* tag_by_font_hierarchy *)

\* hundredths of a point
tolerance == 10

\* [item['font_size'] for item in all_text if item['font_size']]
FontSizes(items) ==
    LET Truthy(item) == item.font_size # 0
    IN  [i \in 1..Len(SelectSeq(items, Truthy)) |-> SelectSeq(items, Truthy)[i].font_size]

\* One iteration of the seeding loop: a size joins an existing group within
\* tolerance, else it becomes a new group
SeedStep(size, grouped_sizes) ==
    IF \E g \in 1..Len(grouped_sizes) : Abs(size - grouped_sizes[g]) <= tolerance
    THEN grouped_sizes
    ELSE Append(grouped_sizes, size)

RECURSIVE GroupSizes(_, _)
\* The seeding loop over font_sizes in input order, starting from
\* grouped_sizes (the sequence is split in two only to keep the evaluation
\* shallow: the iterations still run first to last)
GroupSizes(font_sizes, grouped_sizes) ==
    IF font_sizes = <<>> THEN grouped_sizes
    ELSE IF Len(font_sizes) = 1 THEN SeedStep(font_sizes[1], grouped_sizes)
    ELSE LET half == Len(font_sizes) \div 2
             first == GroupSizes(SubSeq(font_sizes, 1, half), grouped_sizes)
         IN  IF Len(first) >= 0   \* the first half is evaluated first
             THEN GroupSizes(SubSeq(font_sizes, half + 1, Len(font_sizes)), first)
             ELSE first

\* Faulty variant, for sensitivity: ascending order
SortedDesc_Ascending(S) ==
    [i \in 1..Cardinality(S) |->
        CHOOSE x \in S : Cardinality({y \in S : y < x}) = i - 1]

\* sorted(set_of_numbers, reverse=True)
SortedDesc(S) ==
    [i \in 1..Cardinality(S) |->
        CHOOSE x \in S : Cardinality({y \in S : y > x}) = i - 1]

\* unique_sizes
UniqueSizes(items) ==
    LET g == GroupSizes(FontSizes(items), <<>>)
    IN  SortedDesc({g[i] : i \in 1..Len(g)})

\* Index in unique_sizes of the closest size within tolerance (the first one
\* among equally close sizes), 0 when there is none
ClosestSize(font_size, unique_sizes) ==
    LET near == {i \in 1..Len(unique_sizes) :
                    Abs(font_size - unique_sizes[i]) <= tolerance}
        best == {i \in near : \A k \in near :
                    Abs(font_size - unique_sizes[i]) <= Abs(font_size - unique_sizes[k])}
    IN  IF near = {} THEN 0 ELSE MinOf(best)

TagLevel(item, unique_sizes) ==
    IF item.font_size # 0
    THEN LET c == ClosestSize(item.font_size, unique_sizes)
         IN  IF c # 0 THEN LevelName(c) ELSE H_body
    ELSE H_body

WithLevel(item, level) ==
    [text |-> item.text, font_size |-> item.font_size, font_name |-> item.font_name,
     page |-> item.page, y0 |-> item.y0, x0 |-> item.x0, x1 |-> item.x1,
     page_width |-> item.page_width, page_height |-> item.page_height,
     level |-> level]

tag_by_font_hierarchy(items) ==
    LET unique_sizes == UniqueSizes(items)
    IN  [i \in 1..Len(items) |-> WithLevel(items[i], TagLevel(items[i], unique_sizes))]

-----------------------------------------------------------------------------
(* Phase 2 of process_pdf, remove_duplicate_headings *)

\* dict.get(field): None when the record has no such key
Get(rec, field) == IF field \in DOMAIN rec THEN Some(rec[field]) ELSE None

IsActualHeadingOf(item) ==
    is_actual_heading(item.text, item.level, Get(item, "x0"), Get(item, "y0"),
                      Get(item, "page_width"), Get(item, "page_height"),
                      item.font_name)

MakeHeading(item) ==
    [level |-> item.level, text |-> Strip(item.text), page |-> item.page,
     y0 |-> item.y0, x0 |-> item.x0, font_name |-> item.font_name,
     font_size |-> item.font_size]

DetectHeadings(tagged) ==
    LET Keep(item) == IsHeadingLevel(item.level) /\ IsActualHeadingOf(item)
        kept == SelectSeq(tagged, Keep)
    IN  [i \in 1..Len(kept) |-> MakeHeading(kept[i])]

\* Faulty variant, for sensitivity: the key compares text case-sensitively
DedupKey_CaseSensitive(heading) == <<Strip(heading.text), heading.level>>

\* (heading['text'].strip().lower(), heading['level'])
DedupKey(heading) == <<Lower(Strip(heading.text)), heading.level>>

\* One iteration of the loop over a state [seen, unique_outline]
DedupStep(heading, st) ==
    IF DedupKey(heading) \notin st.seen
    THEN [seen |-> st.seen \cup {DedupKey(heading)},
          unique_outline |-> Append(st.unique_outline, heading)]
    ELSE st

RECURSIVE DedupLoop(_, _)
\* The loop over outline in order (split in two to keep the evaluation shallow)
DedupLoop(outline, st) ==
    IF outline = <<>> THEN st
    ELSE IF Len(outline) = 1 THEN DedupStep(outline[1], st)
    ELSE LET half == Len(outline) \div 2
             first == DedupLoop(SubSeq(outline, 1, half), st)
         IN  IF Len(first.unique_outline) >= 0   \* the first half is evaluated first
             THEN DedupLoop(SubSeq(outline, half + 1, Len(outline)), first)
             ELSE first

remove_duplicate_headings(outline) ==
    DedupLoop(outline, [seen |-> {}, unique_outline |-> <<>>]).unique_outline

-----------------------------------------------------------------------------
(* group_vertical_headings *)

\* hundredths of a point
size_similar_within == 50

\* whole points
vertically_close_within == 50

vertically_close_extended_within == 80

\* Faulty variant, for sensitivity: y0 ascending within a page
SortsBefore_Ascending(a, b) == a.page < b.page \/ (a.page = b.page /\ a.y0 < b.y0)

\* key=lambda h: (h['page'], -h.get('y0', 0))
SortsBefore(a, b) == a.page < b.page \/ (a.page = b.page /\ a.y0 > b.y0)

\* sorted(headings, key=...): stable, so of two headings with equal keys the
\* one that comes first in hs stays first
SortHeadings(hs) ==
    LET Precedes(a, b) ==
            SortsBefore(hs[a], hs[b]) \/ (~SortsBefore(hs[b], hs[a]) /\ a < b)
        Rank(a) == Cardinality({b \in 1..Len(hs) : Precedes(b, a)})
    IN  [k \in 1..Len(hs) |-> hs[CHOOSE a \in 1..Len(hs) : Rank(a) = k - 1]]

FontSimilar(current_font, next_font) ==
    IF current_font # "" /\ next_font # ""
    THEN current_font = next_font \/ BeforeDash(current_font) = BeforeDash(next_font)
    ELSE current_font = "" /\ next_font = ""

SizeSimilar(current_size, next_size) ==
    IF current_size # 0 /\ next_size # 0
    THEN Abs(current_size - next_size) <= size_similar_within
    ELSE current_size = 0 /\ next_size = 0

\* The distance is taken from `current`, the first heading of the group
VerticalDistance(current, next_heading) == Abs(current.y0 - next_heading.y0)

\* Does the inner loop absorb next_heading into a group of `size` headings
\* that starts at `current`?
Absorbs(current, next_heading, size) ==
    /\ next_heading.page = current.page
    /\ FontSimilar(current.font_name, next_heading.font_name)
    /\ SizeSimilar(current.font_size, next_heading.font_size)
    /\ \/ VerticalDistance(current, next_heading) <= vertically_close_within
       \/ /\ size > 1
          /\ VerticalDistance(current, next_heading) <= vertically_close_extended_within

\* The two nested loops as one scan over j with the state [i, starts]: i is
\* the index of `current`, starts the indices at which a group began. The
\* inner loop moves j on while sorted[j] is absorbed; at the first j that is
\* not, the outer loop sets i = j and starts the next group there.
GroupStep(sorted, j, st) ==
    IF Absorbs(sorted[st.i], sorted[j], j - st.i)
    THEN st
    ELSE [i |-> j, starts |-> Append(st.starts, j)]

RECURSIVE GroupScan(_, _, _, _)
\* The scan over j = lo..hi in order (split in two to keep the evaluation shallow)
GroupScan(sorted, lo, hi, st) ==
    IF lo > hi THEN st
    ELSE IF lo = hi THEN GroupStep(sorted, lo, st)
    ELSE LET mid == (lo + hi) \div 2
             first == GroupScan(sorted, lo, mid, st)
         IN  IF first.i >= 0   \* the first half is evaluated first
             THEN GroupScan(sorted, mid + 1, hi, first)
             ELSE first

\* The groups of a non-empty sorted list: the runs sorted[i..j-1] that each
\* become one heading
Groups(sorted) ==
    LET starts == GroupScan(sorted, 2, Len(sorted), [i |-> 1, starts |-> <<1>>]).starts
        End(g) == IF g < Len(starts) THEN starts[g + 1] - 1 ELSE Len(sorted)
    IN  [g \in 1..Len(starts) |-> SubSeq(sorted, starts[g], End(g))]

RECURSIVE JoinTexts(_)
\* ' '.join(group_texts)
JoinTexts(texts) ==
    IF Len(texts) = 1 THEN texts[1]
    ELSE texts[1] \o " " \o JoinTexts(Tail(texts))

\* max(level_counts.items(), key=lambda x: x[1])[0]: the level with the most
\* members, the first seen among equals
MostCommonLevel(group) ==
    LET Count(l) == Cardinality({k \in 1..Len(group) : group[k].level = l})
        First(l) == MinOf({k \in 1..Len(group) : group[k].level = l})
        levels == {group[k].level : k \in 1..Len(group)}
    IN  CHOOSE l \in levels :
            \A m \in levels \ {l} :
                Count(l) > Count(m) \/ (Count(l) = Count(m) /\ First(l) < First(m))

MergeGroup(group) ==
    IF Len(group) > 1
    THEN [level |-> MostCommonLevel(group),
          text |-> JoinTexts([k \in 1..Len(group) |-> Strip(group[k].text)]),
          page |-> group[1].page,
          y0 |-> MaxOf({group[k].y0 : k \in 1..Len(group)}),
          font_name |-> group[1].font_name,
          font_size |-> group[1].font_size]
    ELSE group[1]

group_vertical_headings(hs) ==
    IF hs = <<>> THEN hs
    ELSE LET groups == Groups(SortHeadings(hs))
         IN  [g \in 1..Len(groups) |-> MergeGroup(groups[g])]

-----------------------------------------------------------------------------
(* process_pdf: level counts, breakpoint, level filter, title *)

max_items_per_level == 14

\* for i in range(1, 100)
scan_stop == 100

max_heading_level == 6

CountLevels(tagged) ==
    LET levels == {tagged[i].level : i \in 1..Len(tagged)} \ {H_body}
    IN  [l \in {m \in levels : IsHeadingLevel(m)} |->
            Cardinality({i \in 1..Len(tagged) : tagged[i].level = l})]

\* all_heading_counts.get(level, 0)
CountOf(counts, level) == IF level \in DOMAIN counts THEN counts[level] ELSE 0

\* Faulty variant, for sensitivity: a level with exactly max_items_per_level lines counts as crowded
FindBreakpoint_AtLeast(counts) ==
    LET over == {i \in 1..(scan_stop - 1) :
                    CountOf(counts, LevelName(i)) >= max_items_per_level}
    IN  IF over = {} THEN "" ELSE LevelName(MinOf(over))

\* The first level of range(1, 100) with more than max_items_per_level
\* tagged lines; "" for None
FindBreakpoint(counts) ==
    LET over == {i \in 1..(scan_stop - 1) :
                    CountOf(counts, LevelName(i)) > max_items_per_level}
    IN  IF over = {} THEN "" ELSE LevelName(MinOf(over))

KeepWhenH1Breakpoint(item) == item.level = "H1" /\ IsActualHeadingOf(item)

\* Faulty variant, for sensitivity: the cap at max_heading_level forgotten
KeepBelow_NoCap(item, limit) == LevelIndex(item.level) < limit

\* Faulty variant, for sensitivity: the limit level itself is kept
KeepBelow_Inclusive(item, limit) ==
    LevelIndex(item.level) <= limit /\ LevelIndex(item.level) <= max_heading_level

KeepBelow(item, limit) ==
    LevelIndex(item.level) < limit /\ LevelIndex(item.level) <= max_heading_level

FilterHeadings(hs, counts, bp) ==
    IF bp # ""
    THEN IF LevelIndex(bp) = 1
         THEN SelectSeq(hs, KeepWhenH1Breakpoint)
         ELSE LET Keep(item) == KeepBelow(item, LevelIndex(bp))
              IN  SelectSeq(hs, Keep)
    ELSE IF DOMAIN counts # {}
         THEN LET max_level == MaxOf({LevelIndex(l) : l \in DOMAIN counts})
                  Keep(item) == KeepBelow(item, max_level)
              IN  SelectSeq(hs, Keep)
         ELSE <<>>

CleanHeading(heading) ==
    [level |-> heading.level, text |-> heading.text, page |-> heading.page]

CleanHeadings(filtered) == [i \in 1..Len(filtered) |-> CleanHeading(filtered[i])]

\* Faulty variant, for sensitivity: min instead of max
LargestOf_Smallest(lines) ==
    lines[MinOf({i \in 1..Len(lines) :
                    \A k \in 1..Len(lines) : lines[i].font_size <= lines[k].font_size})]

\* max(lines, key=lambda l: l['font_size']): the first of the largest
LargestOf(lines) ==
    lines[MinOf({i \in 1..Len(lines) :
                    \A k \in 1..Len(lines) : lines[i].font_size >= lines[k].font_size})]

PageHeadings(hs, page_num) ==
    LET Keep(h) == h.page = page_num /\ h.level # H_body /\ h.font_size # 0
    IN  SelectSeq(hs, Keep)

PageLines(tagged, page_num) ==
    LET Keep(l) == l.page = page_num /\ l.font_size # 0
    IN  SelectSeq(tagged, Keep)

\* Faulty variant, for sensitivity: the headings of page 1 win over the metadata title
ResolveTitle_ContentFirst(meta, hs, tagged) ==
    IF PageHeadings(hs, 1) # <<>> THEN LargestOf(PageHeadings(hs, 1)).text
    ELSE IF meta # "" THEN meta
    ELSE "Untitled"

\* Faulty variant, for sensitivity: the fallback to the largest line of
\* pages 1 and 2 left out
ResolveTitle_NoFallback(meta, hs, tagged) ==
    IF meta # "" THEN meta
    ELSE IF PageHeadings(hs, 1) # <<>> THEN LargestOf(PageHeadings(hs, 1)).text
    ELSE IF PageHeadings(hs, 2) # <<>> THEN LargestOf(PageHeadings(hs, 2)).text
    ELSE "Untitled"

ResolveTitle(meta, hs, tagged) ==
    IF meta # "" THEN meta
    ELSE IF PageHeadings(hs, 1) # <<>> THEN LargestOf(PageHeadings(hs, 1)).text
    ELSE IF PageHeadings(hs, 2) # <<>> THEN LargestOf(PageHeadings(hs, 2)).text
    ELSE IF PageLines(tagged, 1) # <<>> THEN LargestOf(PageLines(tagged, 1)).text
    ELSE IF PageLines(tagged, 2) # <<>> THEN LargestOf(PageLines(tagged, 2)).text
    ELSE "Untitled"

-----------------------------------------------------------------------------
(* Input documents *)

\* A line record as extract_all_text_with_font_tags appends it: the text is
\* cleaned, trimmed and not empty; every page is 600 x 800 points
Line(text, font_size, font_name, page, x0, y0) ==
    [text |-> text, font_size |-> font_size, font_name |-> font_name,
     page |-> page, y0 |-> y0, x0 |-> x0, x1 |-> x0 + 200,
     page_width |-> 600, page_height |-> 800]

Document(info_ok, info_title, lines) ==
    [info_ok |-> info_ok, info_title |-> info_title, lines |-> lines]

NoInfoTitle == <<>>

\* All sequences over S of length at most n
SeqsUpTo(S, n) == UNION {[1..k -> S] : k \in 0..n}

(* General documents: a few lines that differ in text, font, size, page and
   position, under every kind of Info title. *)

MaxLines == 2

GeneralLines ==
    { Line("March 2003", 2400, "Arial-Bold", 1, 72, 300),
      Line("March 2003", 2400, "Times-Roman", 1, 250, 700),
      Line("(draft)", 2400, "Arial-Bold", 1, 250, 700),
      Line("Intro", 1400, "Times-Roman", 1, 72, 300),
      Line("INTRO", 1400, "Times-Roman", 2, 72, 300),
      Line("Overview", 1400, "Times-Roman", 2, 250, 700),
      Line("ANNUAL REPORT", 2400, "Times-Roman", 1, 250, 700),
      Line("summary of the results", 2400, "Times-Roman", 1, 72, 500),
      Line("Plain paragraph text", 1000, "Times-Roman", 1, 72, 200),
      Line("Plain paragraph text", 1000, "Times-Roman", 2, 72, 200),
      Line("Caption", 0, "", 1, 72, 100) }

InfoTitles ==
    { <<TRUE, NoInfoTitle>>,
      <<TRUE, <<"R", "e", "p", "o", "r", "t">>>>,
      <<TRUE, <<" ", "R", "e", "p", "o", "r", "t", " ">>>>,
      <<TRUE, <<" ", " ">>>>,
      <<TRUE, <<"0xFF", "R", "e", "p">>>>,
      <<FALSE, <<"R", "e", "p", "o", "r", "t">>>> }

GeneralDocuments ==
    { Document(i[1], i[2], ls) : i \in InfoTitles, ls \in SeqsUpTo(GeneralLines, MaxLines) }

(* Tiered documents: n font-size tiers, one all-caps line per tier on a page
   of its own, `fill` further identical lines at tier f and `deep` more at
   the deepest tier n, so that level counts lie just below, at, or just above
   max_items_per_level, alone or on two levels at once. The long ladders
   reach the end of the breakpoint scan. *)

MaxTiers == 8

TierSize(i) == 6000 - 40 * i

TierLine(i) == Line("SECTION", TierSize(i), "Times-Roman", i, 72, 300)

FillLine(f) == Line("body line", TierSize(f), "Times-Roman", f, 72, 200)

FillCounts == {0, max_items_per_level - 2, max_items_per_level - 1, max_items_per_level}

DeepCounts == {0, max_items_per_level}

TieredLines(n, f, fill, deep) ==
    [i \in 1..n |-> TierLine(i)] \o [k \in 1..fill |-> FillLine(f)]
        \o [k \in 1..deep |-> FillLine(n)]

TieredDocuments ==
    UNION { { Document(TRUE, NoInfoTitle, TieredLines(n, f, fill, deep)) :
                f \in 1..n, fill \in FillCounts, deep \in DeepCounts } :
            n \in 1..MaxTiers }

LongLadders ==
    { Document(TRUE, NoInfoTitle, TieredLines(n, n, fill, 0)) :
        n \in {scan_stop - 1, scan_stop}, fill \in FillCounts }

LevelDocuments == TieredDocuments \cup LongLadders

(* Runs: up to MaxRun bold lines of one size, free in page, vertical position
   and font family, followed by one smaller body line. *)

MaxRun == 3

RunTexts == <<"Alpha", "Beta", "Gamma", "Delta", "Epsilon", "Zeta">>

RunPlaces ==
    { <<font, page, y0>> : font \in {"Arial-Bold", "Times-Bold"}, page \in {1, 2},
                           y0 \in {700, 650, 600} }

RunLine(k, place) == Line(RunTexts[k], 1400, place[1], place[2], 72, place[3])

BodyLine == Line("plain paragraph text", 1000, "Times-Roman", 2, 72, 100)

RunDocuments ==
    { Document(TRUE, NoInfoTitle, [k \in 1..Len(places) |-> RunLine(k, places[k])] \o <<BodyLine>>) :
        places \in SeqsUpTo(RunPlaces, MaxRun) }

(* Sizes: up to MaxSizes lines that differ only in font size, the sizes lying
   within a few tolerances of each other, in every input order. *)

MaxSizes == 4

CloseSizes == {0, 1000, 1006, 1011, 1016, 1022}

SizeLine(size) == Line("TEXT", size, "Times-Roman", 1, 72, 300)

SizeDocuments ==
    { Document(TRUE, NoInfoTitle, [k \in 1..Len(sizes) |-> SizeLine(sizes[k])]) :
        sizes \in SeqsUpTo(CloseSizes, MaxSizes) }

(* Sentences: one line of 1 to MaxWords five-letter words, with or without a
   comma after the first word, upper-case or capitalised, bold or not, near
   the centre or at the left margin, over a smaller body line. *)

MaxWords == 7

SentenceWords(n, caps) == [k \in 1..n |-> IF caps THEN "ALPHA" ELSE "Alpha"]

SentenceText(n, comma, caps) ==
    IF comma
    THEN JoinTexts(<<SentenceWords(1, caps)[1] \o ",">> \o SentenceWords(n - 1, caps))
    ELSE JoinTexts(SentenceWords(n, caps))

SentenceLines ==
    { Line(SentenceText(n, comma, caps), 1400, font, 1, x0, 300) :
        n \in 1..MaxWords, comma \in BOOLEAN, caps \in BOOLEAN,
        font \in {"Times-Roman", "Arial-Bold"}, x0 \in {72, 250} }

SentenceDocuments ==
    { Document(TRUE, NoInfoTitle, <<l, BodyLine>>) : l \in SentenceLines }

(* Merges: up to MaxMerge bold lines of one size whose texts are "Alpha",
   "Beta" or "Alpha Beta", free in page and vertical position, followed by
   one smaller body line. *)

MaxMerge == 3

MergeLines ==
    { Line(text, 1400, "Arial-Bold", page, 72, y0) :
        text \in {"Alpha", "Beta", "Alpha Beta"}, page \in {1, 2}, y0 \in {700, 650} }

MergeDocuments ==
    { Document(TRUE, NoInfoTitle, ls \o <<BodyLine>>) : ls \in SeqsUpTo(MergeLines, MaxMerge) }

(* Rechecks: one line at the largest size, free in text, font and position,
   with 13 or 14 more lines of that size that are no headings, so that H1
   is or is not the breakpoint, over a smaller body line. *)

RecheckLines ==
    { Line(text, 1400, font, 1, x0, y0) :
        text \in {"Appendix", "Overview", "Page 3", "***"},
        font \in {"Times-Roman", "Arial-Bold"}, x0 \in {72, 250}, y0 \in {300, 700} }

RecheckFill == Line("body line", 1400, "Times-Roman", 2, 72, 200)

RecheckFillCounts == {max_items_per_level - 1, max_items_per_level}

RecheckDocuments ==
    { Document(TRUE, NoInfoTitle, <<l>> \o [k \in 1..fill |-> RecheckFill] \o <<BodyLine>>) :
        l \in RecheckLines, fill \in RecheckFillCounts }

(* Batches: up to MaxBatch files, each an empty document, a document with
   one heading over a paragraph, or a titled document. *)

MaxBatch == 3

BatchDocuments ==
    { Document(TRUE, NoInfoTitle, <<>>),
      Document(TRUE, NoInfoTitle,
               << Line("ANNUAL REPORT", 2400, "Times-Roman", 1, 250, 700),
                  Line("Plain paragraph text", 1000, "Times-Roman", 1, 72, 200) >>),
      Document(TRUE, <<"R", "e", "p", "o", "r", "t">>,
               << Line("Intro", 1400, "Times-Roman", 1, 72, 300) >>) }

Batches == SeqsUpTo(BatchDocuments, MaxBatch)

-----------------------------------------------------------------------------
(* main and process_pdf *)

\* main before its loop: pdf_files = list(INPUT_DIR.glob("*.pdf"))
InitBatch(batches) ==
    /\ pdf_files \in batches
    /\ file_number = 0
    /\ written = <<>>
    /\ failures = <<>>
    /\ pdf = Document(TRUE, NoInfoTitle, <<>>)
    /\ pc = "main"
    /\ metadata_title = ""
    /\ all_text = <<>>
    /\ tagged_text = <<>>
    /\ phase2_headings = <<>>
    /\ unique_headings = <<>>
    /\ headings = <<>>
    /\ all_heading_counts = <<>>
    /\ breakpoint_level = ""
    /\ filtered_headings = <<>>
    /\ cleaned_headings = <<>>
    /\ title = ""
    /\ output = <<>>

\* A batch of one document out of `documents`
InitWith(documents) == InitBatch({<<d>> : d \in documents})

Init == InitWith(GeneralDocuments)

\* Faulty variant, for sensitivity: a failed document ends the batch
MainLoop_StopsOnFailure ==
    /\ pc \in {"main", "done", "failed"}
    /\ IF pdf_files = <<>> \/ pc = "failed"
       THEN /\ pc' = "exit"
            /\ UNCHANGED <<batch, pdf, metadata_title, all_text, tagged_text,
                           phase2_headings, unique_headings, headings,
                           all_heading_counts, breakpoint_level, filtered_headings,
                           cleaned_headings, title, output>>
       ELSE /\ pdf' = Head(pdf_files)
            /\ pdf_files' = Tail(pdf_files)
            /\ file_number' = file_number + 1
            /\ pc' = "metadata"
            /\ metadata_title' = ""
            /\ all_text' = <<>>
            /\ tagged_text' = <<>>
            /\ phase2_headings' = <<>>
            /\ unique_headings' = <<>>
            /\ headings' = <<>>
            /\ all_heading_counts' = <<>>
            /\ breakpoint_level' = ""
            /\ filtered_headings' = <<>>
            /\ cleaned_headings' = <<>>
            /\ title' = ""
            /\ output' = <<>>
            /\ UNCHANGED <<written, failures>>

\* main: with no file at all it returns at once; otherwise the loop takes the
\* next file and calls process_pdf, whose locals start afresh, and main
\* returns after the last file
MainLoop ==
    /\ pc \in {"main", "done", "failed"}
    /\ IF pdf_files = <<>>
       THEN /\ pc' = "exit"
            /\ UNCHANGED <<batch, pdf, metadata_title, all_text, tagged_text,
                           phase2_headings, unique_headings, headings,
                           all_heading_counts, breakpoint_level, filtered_headings,
                           cleaned_headings, title, output>>
       ELSE /\ pdf' = Head(pdf_files)
            /\ pdf_files' = Tail(pdf_files)
            /\ file_number' = file_number + 1
            /\ pc' = "metadata"
            /\ metadata_title' = ""
            /\ all_text' = <<>>
            /\ tagged_text' = <<>>
            /\ phase2_headings' = <<>>
            /\ unique_headings' = <<>>
            /\ headings' = <<>>
            /\ all_heading_counts' = <<>>
            /\ breakpoint_level' = ""
            /\ filtered_headings' = <<>>
            /\ cleaned_headings' = <<>>
            /\ title' = ""
            /\ output' = <<>>
            /\ UNCHANGED <<written, failures>>

ExtractMetadataTitle ==
    /\ pc = "metadata"
    /\ metadata_title' = extract_metadata_title(pdf)
    /\ pc' = "extract"
    /\ UNCHANGED <<batch, pdf, all_text, tagged_text, phase2_headings, unique_headings,
                   headings, all_heading_counts, breakpoint_level,
                   filtered_headings, cleaned_headings, title, output>>

ExtractAllText ==
    /\ pc = "extract"
    /\ all_text' = pdf.lines
    /\ pc' = "tag"
    /\ UNCHANGED <<batch, pdf, metadata_title, tagged_text, phase2_headings,
                   unique_headings, headings, all_heading_counts, breakpoint_level,
                   filtered_headings, cleaned_headings, title, output>>

\* The errors extract_pages can raise on a malformed file: PDFSyntaxError
\* (line 727) or any other exception (line 729)
ExtractionErrors == {"PDFSyntaxError", "Exception"}

\* extract_all_text_with_font_tags raises: process_pdf prints the failure
\* and returns; nothing is opened or written
ExtractAllTextFails ==
    /\ pc = "extract"
    /\ \E error \in ExtractionErrors :
           failures' = Append(failures, <<file_number, error>>)
    /\ pc' = "failed"
    /\ UNCHANGED <<pdf_files, file_number, written, pdf, metadata_title, all_text,
                   tagged_text, phase2_headings, unique_headings, headings,
                   all_heading_counts, breakpoint_level, filtered_headings,
                   cleaned_headings, title, output>>

TagByFontHierarchy ==
    /\ pc = "tag"
    /\ tagged_text' = tag_by_font_hierarchy(all_text)
    /\ pc' = "phase2"
    /\ UNCHANGED <<batch, pdf, metadata_title, all_text, phase2_headings, unique_headings,
                   headings, all_heading_counts, breakpoint_level,
                   filtered_headings, cleaned_headings, title, output>>

Phase2 ==
    /\ pc = "phase2"
    /\ phase2_headings' = DetectHeadings(tagged_text)
    /\ pc' = "dedup"
    /\ UNCHANGED <<batch, pdf, metadata_title, all_text, tagged_text, unique_headings,
                   headings, all_heading_counts, breakpoint_level,
                   filtered_headings, cleaned_headings, title, output>>

RemoveDuplicates ==
    /\ pc = "dedup"
    /\ unique_headings' = remove_duplicate_headings(phase2_headings)
    /\ pc' = "group"
    /\ UNCHANGED <<batch, pdf, metadata_title, all_text, tagged_text, phase2_headings,
                   headings, all_heading_counts, breakpoint_level,
                   filtered_headings, cleaned_headings, title, output>>

GroupVertical ==
    /\ pc = "group"
    /\ headings' = group_vertical_headings(unique_headings)
    /\ pc' = "breakpoint"
    /\ UNCHANGED <<batch, pdf, metadata_title, all_text, tagged_text, phase2_headings,
                   unique_headings, all_heading_counts, breakpoint_level,
                   filtered_headings, cleaned_headings, title, output>>

CountAndFindBreakpoint ==
    /\ pc = "breakpoint"
    /\ all_heading_counts' = CountLevels(tagged_text)
    /\ breakpoint_level' = FindBreakpoint(CountLevels(tagged_text))
    /\ pc' = "filter"
    /\ UNCHANGED <<batch, pdf, metadata_title, all_text, tagged_text, phase2_headings,
                   unique_headings, headings, filtered_headings, cleaned_headings,
                   title, output>>

FilterLevels ==
    /\ pc = "filter"
    /\ filtered_headings' = FilterHeadings(headings, all_heading_counts, breakpoint_level)
    /\ cleaned_headings' =
           CleanHeadings(FilterHeadings(headings, all_heading_counts, breakpoint_level))
    /\ pc' = "title"
    /\ UNCHANGED <<batch, pdf, metadata_title, all_text, tagged_text, phase2_headings,
                   unique_headings, headings, all_heading_counts, breakpoint_level,
                   title, output>>

SetTitle ==
    /\ pc = "title"
    /\ title' = ResolveTitle(metadata_title, headings, tagged_text)
    /\ pc' = "write"
    /\ UNCHANGED <<batch, pdf, metadata_title, all_text, tagged_text, phase2_headings,
                   unique_headings, headings, all_heading_counts, breakpoint_level,
                   filtered_headings, cleaned_headings, output>>

WriteResult ==
    /\ pc = "write"
    /\ output' = <<[title |-> title, outline |-> cleaned_headings]>>
    /\ written' = Append(written, <<file_number, [title |-> title, outline |-> cleaned_headings]>>)
    /\ pc' = "done"
    /\ UNCHANGED <<pdf_files, file_number, failures, pdf, metadata_title, all_text, tagged_text, phase2_headings,
                   unique_headings, headings, all_heading_counts, breakpoint_level,
                   filtered_headings, cleaned_headings, title>>

Next ==
    \/ MainLoop
    \/ ExtractMetadataTitle
    \/ ExtractAllText
    \/ ExtractAllTextFails
    \/ TagByFontHierarchy
    \/ Phase2
    \/ RemoveDuplicates
    \/ GroupVertical
    \/ CountAndFindBreakpoint
    \/ FilterLevels
    \/ SetTitle
    \/ WriteResult

Spec == Init /\ [][Next]_vars

SpecLevels == InitWith(LevelDocuments) /\ [][Next]_vars

SpecGroup == InitWith(RunDocuments) /\ [][Next]_vars

SpecSizes == InitWith(SizeDocuments) /\ [][Next]_vars

SpecBatch == InitBatch(Batches) /\ [][Next]_vars

SpecSentences == InitWith(SentenceDocuments) /\ [][Next]_vars

SpecMerge == InitWith(MergeDocuments) /\ [][Next]_vars

SpecRecheck == InitWith(RecheckDocuments) /\ [][Next]_vars

-----------------------------------------------------------------------------
(* Properties *)

\* The outline of the written record, <<>> while nothing is written
Outline == IF output = <<>> THEN <<>> ELSE output[1].outline

Written == pc = "done" /\ Len(output) = 1

SeqRange(q) == {q[i] : i \in 1..Len(q)}

\* C1: every entry of the written outline has a level among H1..H6 (never
\* H_body, never H7 or deeper) and exactly the fields level, text and page,
\* whichever branch of the level filter produced it.
C1_OutlineLevelsAndFields ==
    \A e \in SeqRange(Outline) :
        /\ DOMAIN e = {"level", "text", "page"}
        /\ e.level \in {"H1", "H2", "H3", "H4", "H5", "H6"}

\* An H6 entry is written although lines were tagged H7 and H8
C1_Witness ==
    /\ Written
    /\ \E e \in SeqRange(Outline) : e.level = "H6"
    /\ {"H7", "H8"} \subseteq DOMAIN all_heading_counts

\* A heading sorts no later than another: page ascending, then y0 descending
InReadingOrder(a, b) == a.page < b.page \/ (a.page = b.page /\ a.y0 >= b.y0)

OrderedTopDown(hs) ==
    \A i \in 1..Len(hs) : \A j \in (i + 1)..Len(hs) : InReadingOrder(hs[i], hs[j])

\* q is p with some elements left out, the rest in the same order
RECURSIVE IsSubsequence(_, _)
IsSubsequence(q, p) ==
    IF q = <<>> THEN TRUE
    ELSE IF p = <<>> THEN FALSE
    ELSE IF Head(q) = Head(p) THEN IsSubsequence(Tail(q), Tail(p))
    ELSE IsSubsequence(q, Tail(p))

\* C2: the written outline is ordered by page ascending and, within a page,
\* top to bottom (y0 descending, a merged group counting by its topmost
\* member): this is the order group_vertical_headings produces, and the
\* level filter keeps it.
C2_OutlineInReadingOrder ==
    /\ pc \in {"breakpoint", "filter", "title", "write", "done"}
           => OrderedTopDown(headings)
    /\ Written =>
           /\ IsSubsequence(filtered_headings, headings)
           /\ OrderedTopDown(filtered_headings)
           /\ Len(Outline) = Len(filtered_headings)
           /\ \A i \in 1..Len(Outline) :
                  /\ Outline[i].text = filtered_headings[i].text
                  /\ Outline[i].page = filtered_headings[i].page
                  /\ Outline[i].level = filtered_headings[i].level

\* Three entries are written, two of one page, from lines that came in
\* bottom-up
C2_Witness ==
    /\ Written
    /\ Len(Outline) >= 3
    /\ \E i, j \in 1..Len(all_text) :
           /\ i < j
           /\ all_text[i].page = all_text[j].page
           /\ all_text[i].y0 < all_text[j].y0
           /\ \E a, b \in 1..Len(Outline) :
                  a < b /\ Outline[a].text = all_text[j].text
                        /\ Outline[b].text = all_text[i].text

\* The outline has an entry made from the tagged line: same text, page and level
InOutline(line) ==
    \E e \in SeqRange(Outline) :
        e.text = Strip(line.text) /\ e.page = line.page /\ e.level = line.level

\* C3: a line whose text is exactly "March 2003", tagged with a heading
\* level, never appears as an entry of the final outline, whatever its font
\* name and position.
C3_MarchNeverInOutline ==
    \A line \in SeqRange(tagged_text) :
        (line.text = "March 2003" /\ IsHeadingLevel(line.level)) => ~InOutline(line)

\* C4: a line whose trimmed text is enclosed in a matching pair of (), [] or
\* {} is rejected by is_actual_heading whatever its level, font and position;
\* it is no heading after Phase 2, no member of any group, and no entry of
\* the final outline.
C4_BracketedNeverHeading ==
    \A line \in SeqRange(tagged_text) :
        BracketEnclosed(Strip(line.text)) =>
            /\ \A pw \in {None, Some(line.page_width)} :
               \A ph \in {None, Some(line.page_height)} :
                   ~is_actual_heading(line.text, line.level, Some(line.x0),
                                      Some(line.y0), pw, ph, line.font_name)
            /\ \A h \in SeqRange(phase2_headings) \cup SeqRange(unique_headings) :
                   ~(h.text = Strip(line.text) /\ h.page = line.page /\ h.y0 = line.y0)
            /\ unique_headings # <<>> =>
                   \A g \in SeqRange(Groups(SortHeadings(unique_headings))) :
                       \A m \in SeqRange(g) :
                           ~(m.text = Strip(line.text) /\ m.page = line.page /\ m.y0 = line.y0)
            /\ ~InOutline(line)

\* A bold, centred "(draft)" is tagged H1 in a document that has an H2 tier
\* too, so that an H1 heading would have been written
C4_Witness ==
    /\ Written
    /\ "H2" \in DOMAIN all_heading_counts
    /\ \E line \in SeqRange(tagged_text) :
           /\ line.text = "(draft)"
           /\ line.level = "H1"
           /\ IsBoldFont(line.font_name)
           /\ NearCentre(Some(line.x0), Some(line.page_width))

\* sorted[a..b] is a run: three or more headings of one page, one font name
\* and one font size, each at most 50 points below the one before
IsRun(sorted, a, b) ==
    /\ b >= a + 2
    /\ \A k \in a..b :
           /\ sorted[k].page = sorted[a].page
           /\ sorted[k].font_name = sorted[a].font_name
           /\ sorted[k].font_size = sorted[a].font_size
    /\ \A k \in a..(b - 1) : sorted[k].y0 - sorted[k + 1].y0 <= 50

\* A run that cannot be extended on either side
IsMaximalRun(sorted, a, b) ==
    /\ IsRun(sorted, a, b)
    /\ a > 1 => ~IsRun(sorted, a - 1, b)
    /\ b < Len(sorted) => ~IsRun(sorted, a, b + 1)

\* C5: every run of three or more headings of one page, font name and font
\* size with consecutive gaps of at most 50pt becomes exactly one grouped
\* heading, whose text is the texts of the whole run joined by spaces.
C5_RunBecomesOneGroup ==
    pc \in {"breakpoint", "filter", "title", "write", "done"} =>
        LET sorted == SortHeadings(unique_headings)
        IN  \A a, b \in 1..Len(sorted) :
                IsMaximalRun(sorted, a, b) =>
                    Cardinality({k \in 1..Len(headings) :
                        headings[k].text =
                            JoinTexts([i \in 1..(b - a + 1) |-> sorted[a + i - 1].text])}) = 1

\* The number of tagged lines at a level
TaggedAt(level) == Cardinality({i \in 1..Len(tagged_text) : tagged_text[i].level = level})

\* The heading levels seen on tagged lines
TaggedLevels == {tagged_text[i].level : i \in 1..Len(tagged_text)} \ {H_body}

\* The levels with more than 14 tagged lines, as indices
CrowdedLevels == {LevelIndex(l) : l \in {m \in TaggedLevels : TaggedAt(m) > 14}}

AfterBreakpoint == pc \in {"filter", "title", "write", "done"}

\* C6 as stated: the breakpoint is the lowest-indexed level with more than 14
\* tagged lines, whatever its index, and there is none when no level has
\* more than 14.
C6_LowestCrowdedLevel ==
    AfterBreakpoint =>
        IF CrowdedLevels = {}
        THEN breakpoint_level = ""
        ELSE breakpoint_level = LevelName(MinOf(CrowdedLevels))

\* C6 (amended): the counts are taken over all non-body tagged lines, and
\* the breakpoint is the lowest-indexed level among H1..H99 with more than 14
\* tagged lines; when none of H1..H99 has more than 14 (a level with exactly
\* 14 is not crowded) there is no breakpoint.
C6_LowestCrowdedLevelUpToH99 ==
    AfterBreakpoint =>
        /\ DOMAIN all_heading_counts = TaggedLevels
        /\ \A l \in TaggedLevels : all_heading_counts[l] = TaggedAt(l)
        /\ IF CrowdedLevels \cap 1..99 = {}
           THEN breakpoint_level = ""
           ELSE breakpoint_level = LevelName(MinOf(CrowdedLevels \cap 1..99))

\* Two levels are crowded and the shallower one, H3, is the breakpoint,
\* although not every tagged line became a heading
C6_Witness ==
    /\ AfterBreakpoint
    /\ Cardinality(CrowdedLevels) = 2
    /\ breakpoint_level = "H3"
    /\ Len(phase2_headings) < Len(tagged_text)

\* No breakpoint although a level has exactly 14 tagged lines
C6_WitnessExactly14 ==
    /\ AfterBreakpoint
    /\ breakpoint_level = ""
    /\ \E l \in TaggedLevels : TaggedAt(l) = 14

\* C7: rank order is kept up to the tolerance: a line tagged Hi is not
\* smaller by more than 0.1pt than a line tagged Hj, i < j; the cluster
\* seeds are pairwise more than 0.1pt apart, and H1 goes to the largest
\* seed, H2 to the next, and so on (each line lies within 0.1pt of the seed
\* of its level).
C7_RankOrderKept ==
    pc \notin {"metadata", "extract", "tag"} =>
        LET seeds == UniqueSizes(all_text)
        IN  /\ \A a, b \in SeqRange(tagged_text) :
                   (/\ IsHeadingLevel(a.level)
                    /\ IsHeadingLevel(b.level)
                    /\ LevelIndex(a.level) < LevelIndex(b.level))
                       => a.font_size >= b.font_size - 10
            /\ \A i, j \in 1..Len(seeds) : i < j => seeds[i] - seeds[j] > 10
            /\ \A a \in SeqRange(tagged_text) :
                   IsHeadingLevel(a.level) =>
                       /\ LevelIndex(a.level) \in 1..Len(seeds)
                       /\ Abs(a.font_size - seeds[LevelIndex(a.level)]) <= 10

\* An H1 line and an H2 line less than 0.1pt apart, the smaller one first
\* in the input, under three levels
C7_Witness ==
    /\ pc = "phase2"
    /\ "H3" \in TaggedLevels
    /\ \E i, j \in 1..Len(tagged_text) :
           /\ i < j
           /\ tagged_text[i].level = "H2"
           /\ tagged_text[j].level = "H1"
           /\ tagged_text[j].font_size - tagged_text[i].font_size \in 1..10

\* The duplicate key of the claim: trimmed, lower-cased text and level
TextLevelPair(h) == <<Lower(Strip(h.text)), h.level>>

\* The places in L of the first occurrence of each pair
FirstOccurrences(L) ==
    {k \in 1..Len(L) : \A j \in 1..(k - 1) : TextLevelPair(L[j]) # TextLevelPair(L[k])}

\* The n-th smallest element of a set of numbers
NthOf(S, n) == CHOOSE x \in S : Cardinality({y \in S : y < x}) = n - 1

\* C8: remove_duplicate_headings keeps, in their order in L, exactly the
\* first occurrence of every (trimmed lower-cased text, level) pair of L,
\* also when a later occurrence lies on another page; applying it again
\* changes nothing.
C8_DedupFirstOccurrences ==
    pc \notin {"metadata", "extract", "tag", "phase2", "dedup"} =>
        LET L == phase2_headings
            first == FirstOccurrences(L)
        IN  /\ unique_headings = [k \in 1..Cardinality(first) |-> L[NthOf(first, k)]]
            /\ IsSubsequence(unique_headings, L)
            /\ remove_duplicate_headings(unique_headings) = unique_headings

\* A heading is dropped whose text differs in case from the first one and
\* which lies on another page
C8_Witness ==
    /\ pc = "group"
    /\ Len(phase2_headings) = 2
    /\ Len(unique_headings) = 1
    /\ phase2_headings[1].text # phase2_headings[2].text
    /\ phase2_headings[1].page # phase2_headings[2].page

\* The Title of the Info dictionary as a string: its bytes decoded
InfoTitleString == Decode(pdf.info_title)

\* C9 as stated: when the metadata carries a non-empty title, the title of
\* the result is that metadata title.
C9_TitleIsInfoTitle ==
    (Written /\ pdf.info_ok /\ InfoTitleString # "") =>
        output[1].title = InfoTitleString

\* C9 (amended): when the Info title, read without an exception, decoded and
\* trimmed of surrounding whitespace, is not empty, the title of the result
\* is that trimmed string, whatever the content of the document.
C9_TitleIsTrimmedInfoTitle ==
    (Written /\ pdf.info_ok /\ Strip(InfoTitleString) # "") =>
        output[1].title = Strip(InfoTitleString)

\* The trimmed Info title is written although page 1 has a heading, and
\* trimming changed the title
C9_Witness ==
    /\ Written
    /\ pdf.info_ok
    /\ Strip(InfoTitleString) # ""
    /\ Strip(InfoTitleString) # InfoTitleString
    /\ output[1].title = Strip(InfoTitleString)
    /\ \E h \in SeqRange(headings) : h.page = 1

\* The tagged lines of a page that have a heading level and a font size
HeadingLevelLines(page_num) ==
    {i \in 1..Len(tagged_text) :
        /\ tagged_text[i].page = page_num
        /\ tagged_text[i].level # H_body
        /\ tagged_text[i].font_size # 0}

\* C10 as stated: without a metadata title, when page 1 has a heading-level
\* tagged line, the title is the text of the page-1 heading-level line with
\* the largest font size.
C10_TitleIsLargestTaggedLine ==
    (Written /\ metadata_title = "" /\ HeadingLevelLines(1) # {}) =>
        \E i \in HeadingLevelLines(1) :
            /\ \A k \in HeadingLevelLines(1) :
                   tagged_text[i].font_size >= tagged_text[k].font_size
            /\ output[1].title = tagged_text[i].text

\* The grouped headings of a page, as places in `headings`
HeadingsOn(page_num) == {i \in 1..Len(headings) : headings[i].page = page_num}

\* The first of the largest headings among the places P
FirstLargest(P) ==
    MinOf({i \in P : \A k \in P : headings[i].font_size >= headings[k].font_size})

\* C10 (amended): without a metadata title, when the grouped heading list
\* (the lines that passed is_actual_heading, deduplicated and grouped) has
\* an entry on page 1, the title is the text of the first page-1 entry of
\* the largest font size; the headings of page 2 are used, in the same way,
\* only when page 1 has none, and never together with those of page 1.
C10_TitleIsLargestHeading ==
    (Written /\ metadata_title = "") =>
        /\ HeadingsOn(1) # {} =>
               output[1].title = headings[FirstLargest(HeadingsOn(1))].text
        /\ (HeadingsOn(1) = {} /\ HeadingsOn(2) # {}) =>
               output[1].title = headings[FirstLargest(HeadingsOn(2))].text

\* Page 1 has two headings of different sizes, the smaller one first, and the
\* title is the larger one
C10_Witness ==
    /\ Written
    /\ metadata_title = ""
    /\ \E i, j \in HeadingsOn(1) :
           /\ i < j
           /\ headings[i].font_size < headings[j].font_size
           /\ output[1].title = headings[j].text

\* Page 1 has heading-level lines but no heading, and page 2 gives the title
C10_WitnessPage2 ==
    /\ Written
    /\ metadata_title = ""
    /\ HeadingLevelLines(1) # {}
    /\ HeadingsOn(1) = {}
    /\ \E j \in HeadingsOn(2) : output[1].title = headings[j].text

\* The stages of process_pdf that follow the extraction
AfterExtraction ==
    {"tag", "phase2", "dedup", "group", "breakpoint", "filter", "title", "write"}

\* C11: a document without lines, or without a line that becomes a heading,
\* is no error: once the extraction has returned, process_pdf never takes
\* the failure path, and it writes one record; with no heading the outline
\* is empty; for the empty document without metadata title the record is
\* exactly title "Untitled" and outline []; and without metadata title the
\* title is "Untitled" only when no line of page 1 or 2 has a font size.
C11_NoHeadingIsNoError ==
    /\ [][(pc \in AfterExtraction) => (pc' \in AfterExtraction \/ pc' = "done")]_vars
    /\ [](pc = "done" =>
             /\ Len(output) = 1
             /\ written # <<>>
             /\ written[Len(written)] = <<file_number, output[1]>>
             /\ (headings = <<>> => output[1].outline = <<>>)
             /\ (pdf.lines = <<>> /\ metadata_title = "" =>
                     output[1] = [title |-> "Untitled", outline |-> <<>>])
             /\ (metadata_title = "" /\ output[1].title = "Untitled" =>
                     \A i \in 1..Len(pdf.lines) :
                         pdf.lines[i].page \in {1, 2} => pdf.lines[i].font_size = 0))

\* The empty document without metadata title has been written as "Untitled"
C11_Witness ==
    /\ pc = "done"
    /\ pdf.lines = <<>>
    /\ metadata_title = ""
    /\ written = <<<<1, [title |-> "Untitled", outline |-> <<>>]>>>>

\* A document with lines none of which is a heading has been written
C11_WitnessNoHeading ==
    /\ pc = "done"
    /\ Len(pdf.lines) = 2
    /\ headings = <<>>
    /\ output[1].outline = <<>>
    /\ output[1].title # "Untitled"

\* The file numbers of a sequence of <<file number, ...>> pairs
FileNumbers(q) == {q[i][1] : i \in 1..Len(q)}

\* The files process_pdf has returned from
Settled ==
    IF pc \in {"main", "done", "failed", "exit"} THEN 1..file_number
    ELSE 1..(file_number - 1)

\* C12: in a batch, a document whose extraction fails gets no record at
\* all, and never a partial one; the failure does not end the batch: main
\* returns only after it has taken every file, and then every file has
\* either failed or got exactly one record, a whole one.
C12_FailureSkipsOneDocument ==
    /\ FileNumbers(written) \cap FileNumbers(failures) = {}
    /\ FileNumbers(written) \cup FileNumbers(failures) = Settled
    /\ Len(written) = Cardinality(FileNumbers(written))
    /\ Len(failures) = Cardinality(FileNumbers(failures))
    /\ \A i \in 1..Len(written) :
           /\ DOMAIN written[i][2] = {"title", "outline"}
           /\ written[i][2].title # ""
    /\ (pc = "failed" => output = <<>>)
    /\ (pc = "exit" => pdf_files = <<>>)

\* The second of three files failed; the first and the third have a record
C12_Witness ==
    /\ pc = "exit"
    /\ file_number = 3
    /\ FileNumbers(failures) = {2}
    /\ FileNumbers(written) = {1, 3}

\* A text of more than 20 characters with a comma
LongWithComma(t) == Len(t) > 20 /\ Contains(t, ",")

\* The heading-level tagged lines, once the Phase 2 loop has run
ClassifiedLines ==
    IF pc \in {"main", "metadata", "extract", "tag", "phase2", "failed"} THEN {}
    ELSE {l \in SeqRange(tagged_text) : IsHeadingLevel(l.level)}

\* The Phase 2 loop took the line for a heading
TakenForHeading(l) ==
    \E h \in SeqRange(phase2_headings) :
        h.text = Strip(l.text) /\ h.page = l.page /\ h.y0 = l.y0 /\ h.x0 = l.x0

\* C15 as stated: a line of more than 20 characters with a comma and more
\* than 5 space-separated words is rejected, upper-case and bold included.
C15_SentenceOverFiveWords ==
    \A l \in ClassifiedLines :
        (LongWithComma(Strip(l.text)) /\ WordCount(Strip(l.text)) > 5)
            => ~TakenForHeading(l)

\* C15, amended: a line of more than 20 characters with a comma and more
\* than 5 spaces is rejected, upper-case and bold included; a line of that
\* kind with exactly 5 spaces is not, and is taken when it is upper-case or
\* bold and starts neither with a bracket nor in lower case.
C15_SentenceOverFiveSpaces ==
    \A l \in ClassifiedLines :
        LET t == Strip(l.text)
        IN  /\ (LongWithComma(t) /\ CountCh(t, " ") > 5) => ~TakenForHeading(l)
            /\ (/\ LongWithComma(t)
                /\ CountCh(t, " ") = 5
                /\ IsUpper(t) \/ IsBoldFont(l.font_name)
                /\ ~BracketEnclosed(t)
                /\ ~StartsLower(t)) => TakenForHeading(l)

\* An upper-case bold line of seven words with a comma has been rejected
C15_Witness ==
    /\ pc = "dedup"
    /\ phase2_headings = <<>>
    /\ \E l \in SeqRange(tagged_text) :
           /\ IsHeadingLevel(l.level)
           /\ LongWithComma(l.text)
           /\ CountCh(l.text, " ") = 6
           /\ IsUpper(l.text)
           /\ IsBoldFont(l.font_name)

\* The deepest level index among the tagged lines, 0 when there is none
DeepestObserved ==
    LET observed == {LevelIndex(l.level) : l \in {m \in SeqRange(tagged_text) : IsHeadingLevel(m.level)}}
    IN  IF observed = {} THEN 0 ELSE CHOOSE k \in observed : \A j \in observed : j <= k

\* C13: when no level has more than 14 tagged lines the outline holds exactly the grouped headings
\* whose level index is strictly below the deepest observed level index and
\* at most 5, in their order.
C13_NoBreakpointKeepsUpToH5 ==
    (Written /\ \A l \in DOMAIN all_heading_counts :
                    all_heading_counts[l] <= max_items_per_level) =>
        LET Kept(h) == LevelIndex(h.level) < DeepestObserved /\ LevelIndex(h.level) <= 5
            kept == SelectSeq(headings, Kept)
        IN  Outline = [i \in 1..Len(kept) |->
                          [level |-> kept[i].level, text |-> kept[i].text, page |-> kept[i].page]]

\* The indices of the levels with more than 14 tagged lines
CrowdedIndices ==
    {LevelIndex(l) : l \in {m \in DOMAIN all_heading_counts :
                                all_heading_counts[m] > max_items_per_level}}

\* C14: when a level has more than 14 tagged lines and Hk is the lowest such
\* level: for k = 1 every outline entry is an H1 entry; for k > 1 the outline
\* holds exactly the grouped headings of level index below k and at most 6,
\* in their order, hence no entry at Hk or deeper.
C14_BreakpointCutsLevels ==
    (Written /\ CrowdedIndices # {}) =>
        LET k == CHOOSE i \in CrowdedIndices : \A j \in CrowdedIndices : i <= j
            Kept(h) == LevelIndex(h.level) < k /\ LevelIndex(h.level) <= 6
            kept == SelectSeq(headings, Kept)
        IN  /\ k = 1 => \A e \in SeqRange(Outline) : e.level = "H1"
            /\ k > 1 =>
                   /\ Outline = [i \in 1..Len(kept) |->
                                    [level |-> kept[i].level, text |-> kept[i].text,
                                     page |-> kept[i].page]]
                   /\ \A e \in SeqRange(Outline) : LevelIndex(e.level) < k

\* One upper-case line on page 1 over fifteen smaller lines on page 2, one
\* of them a heading: the breakpoint is H2 and the outline is the H1 line
C14_Witness ==
    /\ Written
    /\ breakpoint_level = "H2"
    /\ \E h \in SeqRange(headings) : h.level = "H2"
    /\ Len(tagged_text) = 16
    /\ Outline = <<[level |-> "H1", text |-> "SECTION", page |-> 1]>>

\* The breakpoint is H1, a deeper heading exists, and only H1 is written
C14_WitnessH1 ==
    /\ Written
    /\ breakpoint_level = "H1"
    /\ \E h \in SeqRange(headings) : h.level = "H2"
    /\ Outline = <<[level |-> "H1", text |-> "SECTION", page |-> 1]>>

\* C16: no two entries of the written outline have the same (trimmed
\* lower-cased text, level) pair, also when grouping has merged lines into
\* a text that another heading of the same level has.
C16_OutlineHasNoDuplicates ==
    Written =>
        \A i, j \in 1..Len(Outline) :
            i < j => TextLevelPair(Outline[i]) # TextLevelPair(Outline[j])

\* C17: when the breakpoint is H1, every H1 heading that the Phase 2 loop
\* took and that came through dedup and grouping unmerged is an entry of the
\* outline: the second call of is_actual_heading drops nothing.
C17_RecheckDropsNothing ==
    (Written /\ breakpoint_level = "H1") =>
        \A h \in SeqRange(headings) :
            (h.level = "H1" /\ h \in SeqRange(unique_headings)) =>
                \E e \in SeqRange(Outline) :
                    e = [level |-> h.level, text |-> h.text, page |-> h.page]

====
